---- MODULE Spec2Model ----
(***************************************************************************)
(* A model of the slot-based dispenser: the inventory Store                *)
(* (src/inventory/inventory_manager.py) and the dispensing workflow Sys    *)
(* (src/vending_machine.py).  Every public method is one atomic action     *)
(* (the program is single-threaded and synchronous).  The Item and the     *)
(* payment Handler are collaborators whose code is not part of the two     *)
(* source files; they are modelled from their documented interface, with   *)
(* every outcome the interface allows chosen nondeterministically.         *)
(***************************************************************************)
EXTENDS Integers, Sequences, FiniteSets, TLC

(* ------------------------------ bounds --------------------------------- *)
\* capacity of the store (the cap argument of Store.__init__)
Cap == 2
\* largest item count the model lets a stored item reach
MaxCount == 2
\* largest number of times one transaction is handed to Handler.rev
MaxRev == 2
\* largest balance of the cash handler
MaxBal == 1

(* ------------------------------ inputs --------------------------------- *)
\* one code more than the store has positions, so that a full store can be
\* offered a code it does not hold
CodeNames == <<"a", "c", "b", "d", "e", "f">>
Codes == {CodeNames[i] : i \in 1..(Cap + 1)}
\* the counts of an incoming item
Counts == {1, 2}
\* the price in cents (Item.val) and the outcome of check() of the items of a code
ValOf(code) == IF code = "a" THEN 150 ELSE 200
OkOf(code) == code # "c"
\* explicit pos arguments: the range 0..Cap-1, one below it and one above it
PosArgs == (0 - 1)..Cap
\* Optional[int]: None is [some |-> FALSE], an int n is [some |-> TRUE, v |-> n]
None == [some |-> FALSE, v |-> 0]
Some(n) == [some |-> TRUE, v |-> n]
OptPos == {None} \cup {Some(n) : n \in PosArgs}

(* ------------------------------- Item ---------------------------------- *)
\* an Item value: its code, count, price and the outcome of its check()
Item(code, count, val, ok) == [code |-> code, count |-> count, val |-> val, ok |-> ok]
Items == {Item(c, n, ValOf(c), OkOf(c)) : c \in Codes, n \in Counts}
\* Item.check(): owned by the item type; an opaque attribute of the item
check(item) == item.ok

(* --------------------- Python dicts (insertion ordered) ---------------- *)
\* a dict is the sequence of its entries [k, v] in insertion order
Keys(d) == {d[i].k : i \in DOMAIN d}
Has(d, k) == k \in Keys(d)
IndexOf(d, k) == CHOOSE i \in DOMAIN d : d[i].k = k
Lookup(d, k) == d[IndexOf(d, k)].v
\* d[k] = v: replaces the value in place, or appends a new entry
SetKey(d, k, v) ==
    IF Has(d, k)
    THEN [i \in DOMAIN d |-> IF d[i].k = k THEN [k |-> k, v |-> v] ELSE d[i]]
    ELSE Append(d, [k |-> k, v |-> v])
\* the entry left in the dict
DelKeyNot(d, k) == d

\* del d[k]
DelKey(d, k) == SelectSeq(d, LAMBDA e : e.k # k)

VARIABLES
    data,   \* Store._data: code -> Item
    map,    \* Store._map: pos -> code
    tx,     \* Sys._tx: Optional[Tx]
    h,      \* Sys.h: the payment handler and its state
    last    \* the call that made the last step: its arguments and outcome

vars == <<data, map, tx, h, last>>

(* ------------------------------- Store --------------------------------- *)
\* the range test with its upper bound off by one
InRangeOffByOne(pos) == ~(pos < 0 \/ pos > Cap)

\* line 62: the range test of an explicit pos
InRange(pos) == ~(pos < 0 \/ pos >= Cap)

\* the occupancy test left out
OccupiedNever(m, pos) == FALSE

\* line 64: the occupancy test of an explicit pos
Occupied(m, pos) == Has(m, pos)

\* the number of entries taken for the first free position
FirstFreeCount(m) == Len(m)

\* lines 68-73: the first i of range(cap) not in _map; Cap when there is none
FirstFree(m) ==
    IF \E i \in 0..(Cap - 1) : ~Has(m, i)
    THEN CHOOSE i \in 0..(Cap - 1) : ~Has(m, i) /\ \A j \in 0..(i - 1) : Has(m, j)
    ELSE Cap

\* the count assigned instead of added
AggregateAssign(curr, obj) == [curr EXCEPT !.count = obj.count]

\* lines 58-59: curr.count += obj.count
Aggregate(curr, obj) == [curr EXCEPT !.count = curr.count + obj.count]

\* Store.put(obj, pos): the returned bool and the two dicts after the call
put(d, m, obj, pos) ==
    IF Has(d, obj.code)
    THEN [ret |-> TRUE,
          data |-> SetKey(d, obj.code, Aggregate(Lookup(d, obj.code), obj)),
          map |-> m]
    ELSE IF pos.some
    THEN IF ~InRange(pos.v)
         THEN [ret |-> FALSE, data |-> d, map |-> m]
         ELSE IF Occupied(m, pos.v)
         THEN [ret |-> FALSE, data |-> d, map |-> m]
         ELSE [ret |-> TRUE,
               data |-> SetKey(d, obj.code, obj),
               map |-> SetKey(m, pos.v, obj.code)]
    ELSE IF FirstFree(m) < Cap
         THEN [ret |-> TRUE,
               data |-> SetKey(d, obj.code, obj),
               map |-> SetKey(m, FirstFree(m), obj.code)]
         ELSE [ret |-> FALSE, data |-> d, map |-> m]

\* the entries of _map left as they are
DropCodeNot(m, code) == m

\* every entry of _map deleted
DropCodeAll(m, code) == <<>>

\* lines 89-91: delete every entry of _map whose value is code
DropCode(m, code) == SelectSeq(m, LAMBDA e : e.v # code)

\* the item left in _data
rmKeepData(d, m, code) ==
    IF ~Has(d, code)
    THEN [ret |-> FALSE, data |-> d, map |-> m]
    ELSE [ret |-> TRUE, data |-> d, map |-> SelectSeq(m, LAMBDA e : e.v # code)]

\* Store.rm(code)
rm(d, m, code) ==
    IF ~Has(d, code)
    THEN [ret |-> FALSE, data |-> d, map |-> m]
    ELSE [ret |-> TRUE, data |-> DelKey(d, code), map |-> DropCode(m, code)]

\* Store.get(code): the item, or None as a record with some = FALSE
NoItem == [some |-> FALSE, item |-> Item("", 0, 0, FALSE)]
SomeItem(it) == [some |-> TRUE, item |-> it]
get(d, code) == IF Has(d, code) THEN SomeItem(Lookup(d, code)) ELSE NoItem

\* Store.get_at(pos)
get_at(d, m, pos) == IF ~Has(m, pos) THEN NoItem ELSE get(d, Lookup(m, pos))

\* Store.find(code): the first key of _map, in iteration order, whose value is code
find(m, code) ==
    IF \E i \in DOMAIN m : m[i].v = code
    THEN Some(m[CHOOSE i \in DOMAIN m :
                  m[i].v = code /\ \A j \in 1..(i - 1) : m[j].v # code].k)
    ELSE None

\* Store.ls(): the items that pass check(), in the insertion order of _data
ls(d) == SelectSeq([i \in DOMAIN d |-> d[i].v], check)

(* ------------------------- Tx and the Handler -------------------------- *)
\* TxStatus: the success value and a failure value
TxStatuses == {"DONE", "FAIL"}
\* Tx.msg: empty (None and "" alike: both are false in `tx.msg or ...`) or a text
Msgs == {"", "insufficient funds"}
\* the outcomes of Handler.proc: a status and a message
ProcOutcomes == {<<"DONE", "">>, <<"FAIL", "">>, <<"FAIL", "insufficient funds">>}
\* A Tx object: its identity, status and message, and with it what the handler
\* knows of it: whether its charge stands and how often it was handed to rev.
\* Sys._tx is None or a Tx.
NoTx == [some |-> FALSE, id |-> 0, st |-> "", msg |-> "", charged |-> FALSE, revs |-> 0]
Tx(id, st, msg) ==
    [some |-> TRUE, id |-> id, st |-> st, msg |-> msg, charged |-> st = "DONE", revs |-> 0]
\* the identity of a new Tx object: one no object Sys still refers to has
NewId(t) == IF t.some /\ t.id = 1 THEN 2 ELSE 1

\* the handler: whether it is the Cash variant, and the balance of a Cash handler
Handler(cash) == [cash |-> cash, bal |-> 0]

\* a call of a collaborator, as recorded in last.calls
Called(f, id, ok, amt) == [f |-> f, tx |-> id, ok |-> ok, amt |-> amt]

\* Handler.proc(amount) with outcome (st, msg), while Sys._tx is t: a new Tx;
\* a DONE transaction has taken the charge
proc(t, amt, st, msg) ==
    [ret |-> Tx(NewId(t), st, msg),
     call |-> Called("proc", NewId(t), st = "DONE", amt)]

\* Handler.rev(tx) with outcome ok: a reversal that succeeds lifts the charge
rev(t, ok) ==
    [tx |-> [t EXCEPT !.revs = @ + 1, !.charged = IF ok THEN FALSE ELSE @],
     ret |-> ok,
     call |-> Called("rev", t.id, ok, 0)]

\* Cash.add(amt)
add(hs, amt) ==
    [h |-> [hs EXCEPT !.bal = @ + amt], call |-> Called("add", 0, TRUE, amt)]

\* Cash.ret(): hands out the balance as change (None when there is none)
ret(hs) ==
    [h |-> [hs EXCEPT !.bal = 0],
     ret |-> IF hs.bal > 0 THEN Some(hs.bal) ELSE None,
     call |-> Called("ret", 0, TRUE, hs.bal)]

\* Item.mod() with outcome ok: consumes one unit, or fails and leaves the item
mod(item, ok) ==
    [item |-> IF ok THEN [item EXCEPT !.count = @ - 1] ELSE item,
     ret |-> ok,
     call |-> Called("mod", 0, ok, 0)]

(* -------------------------------- Sys ---------------------------------- *)
\* the state a Sys method works on, and what it hands back
SysState(d, t, hs) == [data |-> d, tx |-> t, h |-> hs]
Raised(s, err, calls) ==
    [s |-> s, err |-> err, code |-> "", chg |-> None, calls |-> calls]
Returned(s, code, chg, calls) ==
    [s |-> s, err |-> "", code |-> code, chg |-> chg, calls |-> calls]

\* the rank of entry i in a stable sort of s by pos
Rank(s, i) ==
    Cardinality({j \in DOMAIN s :
                    s[j].pos < s[i].pos \/ (s[j].pos = s[i].pos /\ j <= i)})

\* the pairs left in the order the store lists them
SortByPosNot(s) == s

\* line 83: sorted(items, key=lambda x: x[0])
SortByPos(s) == [r \in DOMAIN s |-> s[CHOOSE i \in DOMAIN s : Rank(s, i) = r]]

\* lines 78-82: the (pos, item) pairs of the items of Store.ls() that
\* Store.find() gives a position
Located(d, m) ==
    LET found == SelectSeq(ls(d), LAMBDA it : find(m, it.code).some)
    IN  [i \in DOMAIN found |-> [pos |-> find(m, found[i].code).v, item |-> found[i]]]

\* Sys.ls()
sys_ls(d, m) == SortByPos(Located(d, m))

\* the check() of the item left out
NotAvailableNever(item) == FALSE

\* line 103: not item.check()
NotAvailable(item) == ~check(item)

\* Sys.pick(pos): the error it raises, "" when it returns the item
pick(d, m, pos) ==
    IF ~get_at(d, m, pos).some THEN "invalid pos"
    ELSE IF NotAvailable(get_at(d, m, pos).item) THEN "unavailable"
    ELSE ""

\* the transaction not kept
StoreTxNot(s, t) == s

\* line 142: self._tx = tx, before the status is looked at
StoreTx(s, t) == [s EXCEPT !.tx = t]

\* the status not looked at
NotDoneNever(t) == FALSE

\* line 143: tx.st != TxStatus.DONE
NotDone(t) == t.st # "DONE"

\* line 144: tx.msg or 'tx failed'
TxErr(t) == IF t.msg = "" THEN "tx failed" ELSE t.msg

\* lines 149-150 and 174-175: the change, from ret() of a Cash handler only
Settle(s, calls) ==
    IF s.h.cash
    THEN [s |-> [s EXCEPT !.h = ret(s.h).h], chg |-> ret(s.h).ret,
          calls |-> Append(calls, ret(s.h).call)]
    ELSE [s |-> s, chg |-> None, calls |-> calls]

\* _tx emptied when the dispense failed
DispenseFailedCleared(s, calls, revok) ==
    Raised([s EXCEPT !.tx = NoTx], "dispense failed",
           Append(calls, rev(s.tx, revok).call))

\* the error raised without the reversal
DispenseFailedNoRev(s, calls, revok) == Raised(s, "dispense failed", calls)

\* lines 146-147: mod() failed: rev(tx), its result dropped, then the error.
\* tx is the object _tx refers to, so what rev does to it shows in _tx
DispenseFailed(s, calls, revok) ==
    Raised([s EXCEPT !.tx = rev(s.tx, revok).tx], "dispense failed",
           Append(calls, rev(s.tx, revok).call))

\* _tx emptied when the item is handed out
DispensedCleared(s, item, calls) ==
    Returned([Settle(s, calls).s EXCEPT !.tx = NoTx], item.code,
             Settle(s, calls).chg, Settle(s, calls).calls)

\* lines 148-151: mod() returned true: the change, then the item; _tx stays
Dispensed(s, item, calls) ==
    Returned(Settle(s, calls).s, item.code, Settle(s, calls).chg, Settle(s, calls).calls)

\* lines 141-151 of Sys.buy, after pick returned item: the payment has the
\* outcome (st, msg), mod() the outcome modok and rev() the outcome revok
Pay(s, item, st, msg, modok, revok) ==
    LET p == proc(s.tx, item.val, st, msg)
        s1 == StoreTx(s, p.ret)
        md == mod(item, modok)
        s2 == [s1 EXCEPT !.data = SetKey(s1.data, item.code, md.item)]
    IN  IF NotDone(p.ret) THEN Raised(s1, TxErr(p.ret), <<p.call>>)
        ELSE IF ~md.ret THEN DispenseFailed(s2, <<p.call, md.call>>, revok)
        ELSE Dispensed(s2, item, <<p.call, md.call>>)

\* Sys.buy(pos)
buy(s, m, pos, st, msg, modok, revok) ==
    IF pick(s.data, m, pos) # "" THEN Raised(s, pick(s.data, m, pos), <<>>)
    ELSE Pay(s, get_at(s.data, m, pos).item, st, msg, modok, revok)

\* _tx kept after a cancel that returned
ClearNot(s) == s

\* line 176: self._tx = None, reached only when rev returned true
Clear(s) == [s EXCEPT !.tx = NoTx]

\* the test for a transaction left out
NoActiveNever(s) == FALSE

\* line 168: not self._tx
NoActive(s) == ~s.tx.some

\* _tx dropped when the reversal failed
RevFailedCleared(s, calls) == Raised([s EXCEPT !.tx = NoTx], "rev failed", calls)

\* lines 171-172: rev returned false: the error, _tx as it is
RevFailed(s, calls) == Raised(s, "rev failed", calls)

\* Sys.cancel(), rev() having the outcome revok
cancel(s, revok) ==
    IF NoActive(s) THEN Raised(s, "no tx", <<>>)
    ELSE LET r == rev(s.tx, revok)
             s1 == [s EXCEPT !.tx = r.tx]
         IN  IF ~r.ret THEN RevFailed(s1, <<r.call>>)
             ELSE LET st2 == Settle(s1, <<r.call>>)
                  IN  Returned(Clear(st2.s), "", st2.chg, st2.calls)

\* every handler taken for a Cash
NotCashNever(hs) == FALSE

\* line 121: not isinstance(self.h, Cash)
NotCash(hs) == ~hs.cash

\* Sys.add_money(amt)
add_money(s, amt) ==
    IF NotCash(s.h) THEN Raised(s, "cash not supported", <<>>)
    ELSE Returned([s EXCEPT !.h = add(s.h, amt).h], "", None, <<add(s.h, amt).call>>)

(* ------------------------------ actions -------------------------------- *)
\* the amounts a caller adds, and the positions a caller buys at
Amts == {1}
BuyPos == 0..Cap
\* the items the machine is stocked with: one unit at a time, of a code that
\* passes check() and of one that does not
Stock == {Item(c, 1, ValOf(c), OkOf(c)) : c \in {"a", "c"}}

\* the record of a call: the method, the code, count and pos of put and rm
\* (the pos of buy and the code of the item it returned), the bool returned (for a Sys method:
\* whether it returned at all), the error raised, the change returned and the
\* calls made to the collaborators, in order
Call(op, code, cnt, pos, out, err, chg, calls) ==
    [op |-> op, code |-> code, cnt |-> cnt, pos |-> pos,
     ret |-> out, err |-> err, chg |-> chg, calls |-> calls]

Init ==
    /\ data = <<>>
    /\ map = <<>>
    /\ tx = NoTx
    /\ h \in {Handler(cash) : cash \in BOOLEAN}
    /\ last = Call("init", "", 0, None, FALSE, "", None, <<>>)

\* a caller puts an item into the store
Put(obj, pos) ==
    \E r \in {put(data, map, obj, pos)} :
    /\ \A i \in DOMAIN r.data : r.data[i].v.count <= MaxCount
    /\ data' = r.data
    /\ map' = r.map
    /\ last' = Call("put", obj.code, obj.count, pos, r.ret, "", None, <<>>)
    /\ UNCHANGED <<tx, h>>

\* a caller removes a code from the store
Rm(code) ==
    \E r \in {rm(data, map, code)} :
    /\ data' = r.data
    /\ map' = r.map
    /\ last' = Call("rm", code, 0, None, r.ret, "", None, <<>>)
    /\ UNCHANGED <<tx, h>>

\* what a Sys method leaves behind
Done(op, pos, r) ==
    /\ data' = r.s.data
    /\ tx' = r.s.tx
    /\ h' = r.s.h
    /\ last' = Call(op, r.code, 0, pos, r.err = "", r.err, r.chg, r.calls)
    /\ UNCHANGED map

\* Sys.buy(pos) raises in pick
BuyNoPick(pos) ==
    /\ pick(data, map, pos) # ""
    /\ \E r \in {buy(SysState(data, tx, h), map, pos, "FAIL", "", FALSE, FALSE)} :
          Done("buy", Some(pos), r)

\* Sys.buy(pos) reaches the payment, which fails
BuyNoPay(pos) ==
    /\ pick(data, map, pos) = ""
    /\ \E o \in ProcOutcomes :
       /\ o[1] # "DONE"
       /\ \E r \in {buy(SysState(data, tx, h), map, pos, o[1], o[2], FALSE, FALSE)} :
             Done("buy", Some(pos), r)

\* Sys.buy(pos) is paid, and mod() fails: rev() returns revok
BuyNoDispense(pos) ==
    /\ pick(data, map, pos) = ""
    /\ \E o \in ProcOutcomes, revok \in BOOLEAN :
       /\ o[1] = "DONE"
       /\ \E r \in {buy(SysState(data, tx, h), map, pos, o[1], o[2], FALSE, revok)} :
             Done("buy", Some(pos), r)

\* Sys.buy(pos) is paid, and mod() consumes one unit
BuyOk(pos) ==
    /\ pick(data, map, pos) = ""
    /\ get_at(data, map, pos).item.count > 0
    /\ \E o \in ProcOutcomes :
       /\ o[1] = "DONE"
       /\ \E r \in {buy(SysState(data, tx, h), map, pos, o[1], o[2], TRUE, FALSE)} :
             Done("buy", Some(pos), r)

Buy(pos) == BuyNoPick(pos) \/ BuyNoPay(pos) \/ BuyNoDispense(pos) \/ BuyOk(pos)

\* Sys.cancel()
Cancel ==
    /\ tx.revs < MaxRev
    /\ \E revok \in BOOLEAN :
       \E r \in {cancel(SysState(data, tx, h), revok)} : Done("cancel", None, r)

\* Sys.add_money(amt)
AddMoney(amt) ==
    /\ h.bal + amt <= MaxBal
    /\ \E r \in {add_money(SysState(data, tx, h), amt)} : Done("add_money", None, r)

\* the store alone: any sequence of put and rm
NextStore ==
    \/ \E obj \in Items, pos \in OptPos : Put(obj, pos)
    \/ \E code \in Codes : Rm(code)

SpecStore == Init /\ [][NextStore]_vars

\* the whole machine: the store is filled at the first free position
Next ==
    \/ \E obj \in Stock : Put(obj, None)
    \/ \E obj \in Stock : Rm(obj.code)
    \/ \E pos \in BuyPos : Buy(pos)
    \/ Cancel
    \/ \E amt \in Amts : AddMoney(amt)

Spec == Init /\ [][Next]_vars

(* ------------------------------ properties ----------------------------- *)
HasCall(c, f) == \E i \in DOMAIN c : c[i].f = f
CountCalls(c, f) == Cardinality({i \in DOMAIN c : c[i].f = f})
ModFailed(c) == \E i \in DOMAIN c : c[i].f = "mod" /\ ~c[i].ok
\* the call made the payment step: proc is the first call of buy
Paying(l) == l.op = "buy" /\ l.calls # <<>>

\* C1: when mod() returns false in buy, after proc returned a DONE
\* transaction, rev is called exactly once in that call, with the transaction
\* proc returned, the call raises 'dispense failed' and every item count is
\* what it was before the call.
C1_PurchaseAtomicity ==
    [][(last'.op = "buy" /\ ModFailed(last'.calls)) =>
          /\ Len(last'.calls) = 3
          /\ last'.calls[1].f = "proc" /\ last'.calls[1].ok
          /\ last'.calls[2].f = "mod"
          /\ last'.calls[3].f = "rev" /\ last'.calls[3].tx = last'.calls[1].tx
          /\ CountCalls(last'.calls, "rev") = 1
          /\ last'.err = "dispense failed"
          /\ data' = data]_vars

C1_Witness ==
    /\ last.op = "buy" /\ ModFailed(last.calls)
    /\ last.err = "dispense failed" /\ HasCall(last.calls, "rev")

\* C2: whenever buy has raised 'dispense failed', the charge of the
\* transaction of that call (the one _tx holds) no longer stands, whatever
\* rev returned.
C2_NoChargeWithoutDispense ==
    (last.op = "buy" /\ last.err = "dispense failed") => ~tx.charged

\* C3: buy calls mod() and returns an item only after proc has returned a
\* DONE transaction; when proc returns another status buy raises, does not
\* call mod() and returns no item.
C3_NoFreeDispense ==
    last.op = "buy" =>
       /\ (HasCall(last.calls, "mod") \/ last.ret) =>
             /\ last.calls[1].f = "proc" /\ last.calls[1].ok
             /\ \A i \in DOMAIN last.calls : last.calls[i].f = "mod" => i > 1
       /\ (Paying(last) /\ ~last.calls[1].ok) =>
             /\ ~last.ret /\ last.err # "" /\ last.code = ""
             /\ ~HasCall(last.calls, "mod")

C3_Witness ==
    /\ last.op = "buy" /\ last.ret /\ last.code = "a"
    /\ HasCall(last.calls, "mod") /\ ~ModFailed(last.calls)

C5_FailedPayment ==
    [][(Paying(last') /\ ~last'.calls[1].ok) =>
          /\ tx'.some /\ tx'.id = last'.calls[1].tx /\ tx'.st # "DONE"
          /\ last'.err = (IF tx'.msg = "" THEN "tx failed" ELSE tx'.msg)
          /\ data' = data
          /\ last'.calls = <<last'.calls[1]>>]_vars

C5_Witness ==
    /\ last.op = "buy" /\ last.err = "insufficient funds"
    /\ tx.some /\ tx.st = "FAIL" /\ tx.msg = "insufficient funds"

C7_CancelNoTx ==
    [][(last'.op = "cancel" /\ ~tx.some) =>
          /\ last'.err = "no tx"
          /\ last'.calls = <<>>
          /\ UNCHANGED <<tx, data, map, h>>]_vars

C7_Witness ==
    /\ last.op = "cancel" /\ last.err = "no tx" /\ ~tx.some /\ data # <<>>

\* C8: after any sequence of put and rm the slot map has at most cap entries
\* and each of its positions p satisfies 0 <= p < cap; a put of a code that is
\* not stored, when all cap positions are occupied, returns false and leaves
\* the item map and the slot map unchanged.
C8_Capacity ==
    /\ [](/\ Len(map) <= Cap
          /\ Cardinality(Keys(map)) = Len(map)
          /\ \A p \in Keys(map) : 0 <= p /\ p < Cap)
    /\ [][(last'.op = "put" /\ ~Has(data, last'.code) /\ Len(map) = Cap) =>
             (~last'.ret /\ data' = data /\ map' = map)]_vars

C8_Witness ==
    /\ last.op = "put" /\ ~last.ret /\ ~last.pos.some
    /\ Len(map) = Cap /\ ~Has(data, last.code)

\* C9: put of an item whose code is stored returns true, adds the count of
\* the incoming item to the count of the stored item and leaves the slot map
\* unchanged, whatever pos is.
C9_CodeUniqueness ==
    [][(last'.op = "put" /\ Has(data, last'.code)) =>
          /\ last'.ret
          /\ Keys(data') = Keys(data)
          /\ Lookup(data', last'.code).count =
                Lookup(data, last'.code).count + last'.cnt
          /\ map' = map]_vars

C9_Witness ==
    /\ last.op = "put" /\ last.ret
    /\ last.pos.some /\ last.pos.v = Cap
    /\ Has(data, last.code) /\ Lookup(data, last.code).count > last.cnt

\* C10: put of a code that is not stored, with an explicit pos that is out of
\* range or occupied, returns false and changes neither map; the item at an
\* occupied pos is still the one get_at(pos) returns.
C10_BadPos ==
    [][(/\ last'.op = "put" /\ ~Has(data, last'.code) /\ last'.pos.some
        /\ \/ last'.pos.v < 0
           \/ last'.pos.v >= Cap
           \/ Has(map, last'.pos.v)) =>
          /\ ~last'.ret
          /\ data' = data /\ map' = map
          /\ get_at(data', map', last'.pos.v) = get_at(data, map, last'.pos.v)]_vars

C10_Witness ==
    /\ last.op = "put" /\ ~last.ret /\ last.pos.some
    /\ Has(map, last.pos.v) /\ ~Has(data, last.code) /\ Len(map) < Cap

\* the positions of the slot map that hold code
PosOf(m, code) == {m[i].k : i \in {j \in DOMAIN m : m[j].v = code}}
\* the free positions of the slot map
Free(m) == {p \in 0..(Cap - 1) : ~Has(m, p)}

\* C11: after rm(code) has returned true, get(code) and find(code) are empty
\* and no position maps to code, while every other code keeps its item and
\* its position; rm of a code that is not stored returns false and changes
\* neither map.
C11_RemovalComplete ==
    [][last'.op = "rm" =>
          IF Has(data, last'.code)
          THEN /\ last'.ret
               /\ ~get(data', last'.code).some
               /\ ~find(map', last'.code).some
               /\ PosOf(map', last'.code) = {}
               /\ \A c \in Keys(data) \ {last'.code} :
                     /\ get(data', c) = get(data, c)
                     /\ find(map', c) = find(map, c)
                     /\ PosOf(map', c) = PosOf(map, c)
          ELSE ~last'.ret /\ data' = data /\ map' = map]_vars

C11_Witness ==
    /\ last.op = "rm" /\ last.ret /\ ~Has(data, last.code)
    /\ Len(data) = Cap - 1 /\ Len(map) = Cap - 1

\* C12: in every state reached by put and rm, every position of the slot map
\* holds a code of the item map, and no code is held by two positions.
C12_SlotMapping ==
    /\ \A i \in DOMAIN map : Has(data, map[i].v)
    /\ \A i, j \in DOMAIN map : map[i].v = map[j].v => i = j

C12_Witness ==
    /\ last.op = "rm" /\ last.ret /\ map # <<>>
    /\ \E i \in DOMAIN map : map[i].k > 0

\* C13: the pairs Sys.ls returns have strictly ascending positions, each item
\* passes check(), and each position is the one the store maps to the code of
\* its item.
C13_ListingOrder ==
    LET l == sys_ls(data, map) IN
    /\ \A i, j \in DOMAIN l : i < j => l[i].pos < l[j].pos
    /\ \A i \in DOMAIN l :
          /\ check(l[i].item)
          /\ Has(map, l[i].pos) /\ Lookup(map, l[i].pos) = l[i].item.code
          /\ get(data, l[i].item.code) = SomeItem(l[i].item)

\* two items listed, the one stored later at the lower position and listed first
C13_Witness ==
    /\ Len(sys_ls(data, map)) = 2
    /\ Len(map) = 2 /\ map[1].k > map[2].k
    /\ sys_ls(data, map)[1].item.code = map[2].v

\* C14: add_money on a handler that is not a Cash raises 'cash not supported',
\* calls nothing and leaves the handler, _tx and the store unchanged; on a
\* Cash handler it calls add once, with the amount, and nothing else.
C14_AddMoney ==
    [][last'.op = "add_money" =>
          IF ~h.cash
          THEN /\ last'.err = "cash not supported"
               /\ last'.calls = <<>>
               /\ UNCHANGED <<h, tx, data, map>>
          ELSE /\ last'.err = ""
               /\ Len(last'.calls) = 1
               /\ last'.calls[1].f = "add"
               /\ h'.bal = h.bal + last'.calls[1].amt
               /\ UNCHANGED <<tx, data, map>>]_vars

C14_Witness ==
    /\ last.op = "add_money" /\ last.err = "cash not supported"
    /\ ~h.cash /\ tx.some /\ data # <<>>

\* C15: when buy returns, _tx holds the DONE transaction of that purchase; a
\* cancel that follows does not raise 'no tx' but calls rev on that
\* transaction, and empties _tx when rev returns true.
C15_StaleTx ==
    [][/\ (last'.op = "buy" /\ last'.ret) =>
             /\ tx'.some /\ tx'.st = "DONE"
             /\ tx'.id = last'.calls[1].tx
       /\ (last.op = "buy" /\ last.ret /\ last'.op = "cancel") =>
             /\ last'.err # "no tx"
             /\ last'.calls # <<>>
             /\ last'.calls[1].f = "rev" /\ last'.calls[1].tx = tx.id
             /\ last'.calls[1].ok => ~tx'.some]_vars

\* a cancel, the reversal refused, of a DONE transaction that no buy reversed
C15_Witness ==
    /\ last.op = "cancel" /\ last.err = "rev failed"
    /\ tx.some /\ tx.st = "DONE" /\ tx.revs = 1 /\ tx.charged

\* C16: put of a code that is not stored, with pos omitted, places the code at
\* the smallest position of 0..cap-1 that is free at the call, and returns
\* false only when none is free.
C16_FirstFree ==
    [][(last'.op = "put" /\ ~Has(data, last'.code) /\ ~last'.pos.some) =>
          IF Free(map) = {}
          THEN ~last'.ret /\ data' = data /\ map' = map
          ELSE /\ last'.ret
               /\ PosOf(map', last'.code) =
                     {CHOOSE p \in Free(map) : \A q \in Free(map) : p <= q}
               /\ \A c \in Keys(data) : PosOf(map', c) = PosOf(map, c)
               /\ Has(data', last'.code)]_vars

\* the code is placed at position 0 below an occupied position
C16_Witness ==
    /\ last.op = "put" /\ last.ret /\ ~last.pos.some
    /\ Len(map) = 2 /\ map[1].k = 1
    /\ map[2].k = 0 /\ map[2].v = last.code

\* C17: buy(pos) at a position that is unmapped, or whose item fails check(),
\* raises 'invalid pos' / 'unavailable' without calling proc, rev, ret or
\* mod(), and leaves _tx, the store and the handler unchanged.
C17_BuyNoPick ==
    [][(/\ last'.op = "buy"
        /\ \/ ~get_at(data, map, last'.pos.v).some
           \/ ~check(get_at(data, map, last'.pos.v).item)) =>
          /\ last'.err = (IF ~get_at(data, map, last'.pos.v).some
                          THEN "invalid pos" ELSE "unavailable")
          /\ last'.calls = <<>>
          /\ UNCHANGED <<tx, data, map, h>>]_vars

C17_Witness ==
    /\ last.op = "buy" /\ last.err = "unavailable" /\ tx.some
    /\ get_at(data, map, last.pos.v).some

\* C18: a position that holds a code holds the same code after every call,
\* except a rm of that code that returns true.
C18_PositionStable ==
    [][\A i \in DOMAIN map :
          \/ last'.op = "rm" /\ last'.ret /\ last'.code = map[i].v
          \/ Has(map', map[i].k) /\ Lookup(map', map[i].k) = map[i].v]_vars

\* a put with an explicit pos of a code stored earlier, in a full store
C18_Witness ==
    /\ last.op = "put" /\ last.ret /\ last.pos.some
    /\ Len(map) = Cap /\ map[Len(map)].v # last.code

\* C19: every stored code has exactly one position, so the two maps have the
\* same size, get_at(find(code)) is get(code), and Sys.ls leaves out no item
\* that passes check().
C19_OnePosition ==
    /\ Len(map) = Len(data)
    /\ \A c \in Keys(data) :
          /\ Cardinality(PosOf(map, c)) = 1
          /\ find(map, c).some
          /\ get_at(data, map, find(map, c).v) = get(data, c)
          /\ check(Lookup(data, c)) =>
                \E i \in DOMAIN sys_ls(data, map) :
                   sys_ls(data, map)[i].item = Lookup(data, c)

C19_Witness ==
    /\ last.op = "rm" /\ last.ret /\ Len(data) = 1
    /\ find(map, data[1].k) = Some(Cap - 1) /\ check(data[1].v)

\* C20: after buy has raised 'dispense failed', _tx holds the transaction buy
\* has handed to rev; a cancel that follows hands the same transaction to rev
\* a second time.
C20_DoubleReverse ==
    [][/\ (last'.op = "buy" /\ last'.err = "dispense failed") =>
             /\ tx'.some /\ tx'.revs = 1
             /\ tx'.id = last'.calls[1].tx /\ tx'.id = last'.calls[3].tx
       /\ (last.op = "buy" /\ last.err = "dispense failed" /\ last'.op = "cancel") =>
             /\ last'.calls # <<>>
             /\ last'.calls[1].f = "rev" /\ last'.calls[1].tx = tx.id
             /\ tx.revs = 1
             /\ tx'.some => tx'.revs = 2]_vars

\* a transaction that buy reversed and a cancel handed to rev again
C20_Witness ==
    /\ last.op = "cancel" /\ last.err = "rev failed"
    /\ tx.some /\ tx.st = "DONE" /\ ~tx.charged /\ tx.revs = 2
====
